---- MODULE Spec2Model ----
(***************************************************************************)
(* Model of the heap allocator of src/src/heap.c: heap_create, heap_alloc, *)
(* heap_free and heap_destroy over arenas reserved from the OS, a          *)
(* segregated-fit engine (tlsf) and a registry of backtrace_t records.     *)
(* Sizes and addresses are size_t values of WordBits bits.                 *)
(***************************************************************************)
EXTENDS Integers, Sequences, FiniteSets, TLC

\* ------------------------------------------------------------------ bounds
\* size_t has WordBits bits and int has IntBits bits (64 and 32 in the build:
\* some sizes that can be allocated do not fit in int)
WordBits == 10
IntBits == WordBits - 1
NumThreads == 2
MaxCalls == 3

W == 2 ^ WordBits
Threads == 1 .. NumThreads
HeapIds == {1, 2}
NULL == 0

\* ------------------------------------------------------- program constants
FRAME_MAX == 3
\* sizeof(backtrace_t) and sizeof(arena_t) with 8-byte pointers
SizeofBacktrace == 56
SizeofArena == 16
PoolOverhead == 16
PageSize == 64
HeapRegionBytes == 64

\* ------------------------------------------------------------------ inputs
\* BigSize: 2 * BigSize wraps and BigSize does not fit in int, while
\* BigSize + sizeof(backtrace_t) is representable; BigGrow: an increment whose
\* arena holds a BigSize request
BigSize == W \div 2 + 88
Sizes == {8, 72, BigSize}
Alignments == {8, 64}
BigGrow == W \div 2 + 192
GrowIncrements == {16, BigGrow}
\* the depth of the call stack from which thread t calls into the heap
Depth(t) == t + 1
BogusAddress == W - 8

\* ----------------------------------------------------------------- helpers
Max(a, b) == IF a >= b THEN a ELSE b

Min(a, b) == IF a <= b THEN a ELSE b

SetMin(S) == CHOOSE x \in S : \A y \in S : x <= y

RoundUp(n, m) == ((n + m - 1) \div m) * m

VARIABLES heap, thr, arena_mem, bt_mem, os, log, ghost, tracer

vars == <<heap, thr, arena_mem, bt_mem, os, log, ghost, tracer>>

\* ---------------------------------------------------------- the OS (pages)
\* VirtualAlloc(NULL, bytes, MEM_COMMIT | MEM_RESERVE, ...): the base of a
\* fresh page-aligned region, or NULL when the address space cannot hold it.
VirtualAllocBase(o, bytes) ==
    IF bytes = 0 \/ o.next + RoundUp(bytes, PageSize) > W THEN NULL ELSE o.next

VirtualAllocCommit(o, bytes, owner) ==
    [o EXCEPT !.next = o.next + RoundUp(bytes, PageSize),
              !.held = o.held \cup {[base |-> o.next, bytes |-> bytes, owner |-> owner]},
              !.ever = o.ever \cup {[base |-> o.next, owner |-> owner]}]

VirtualFree(o, base) ==
    [o EXCEPT !.held = {r \in o.held : r.base # base},
              !.released = o.released \o <<base>>]

\* ------------------------------------------------- the engine (tlsf, pools)
\* nfree counts the calls of tlsf_free
tlsf_create == [pools |-> {}, blocks |-> {}, alive |-> TRUE, nfree |-> 0]

tlsf_add_pool(tlsf, mem, bytes) ==
    [tlsf EXCEPT !.pools = tlsf.pools \cup {[lo |-> mem + PoolOverhead, hi |-> mem + bytes]}]

BlockFits(tlsf, pool, a, n) ==
    /\ a >= pool.lo
    /\ a + n <= pool.hi
    /\ \A b \in tlsf.blocks : a + n <= b.addr \/ b.addr + b.size <= a

PoolCandidates(tlsf, pool, align, n) ==
    {a \in pool.lo .. (pool.hi - n) : a % align = 0 /\ BlockFits(tlsf, pool, a, n)}

\* the addresses tlsf_memalign may return: the first fit of any pool
tlsf_memalign(tlsf, align, n) ==
    {SetMin(PoolCandidates(tlsf, p, align, n)) :
        p \in {q \in tlsf.pools : PoolCandidates(tlsf, q, align, n) # {}}}

tlsf_take(tlsf, a, n) ==
    [tlsf EXCEPT !.blocks = tlsf.blocks \cup {[addr |-> a, size |-> n]}]

tlsf_free(tlsf, a) ==
    [tlsf EXCEPT !.blocks = {b \in tlsf.blocks : b.addr # a}, !.nfree = @ + 1]

tlsf_destroy(tlsf) == [tlsf EXCEPT !.alive = FALSE]

\* ------------------------------------------------------------------- state
IdleThread ==
    [pc |-> "idle", op |-> "none", h |-> 1, size |-> 0, alignment |-> 0,
     address |-> NULL, ret |-> NULL, logged |-> FALSE, grew |-> FALSE, depth |-> 0,
             snap |-> NULL, tries |-> 0]

\* a thread back from a call: its locals are gone, the result stays
Returned(th, ret, logged) ==
    [IdleThread EXCEPT !.op = th.op, !.h = th.h, !.ret = ret, !.logged = logged]

NoHeap ==
    [state |-> "Absent", base |-> NULL, tlsf |-> tlsf_create, grow_increment |-> 0,
     arena |-> NULL, backtrace |-> NULL, mutex |-> 0]

EmptyFn == [x \in {} |-> NULL]

\* the registry read head to tail: the records in list order
RECURSIVE Registry(_, _)
Registry(mem, trace) ==
    IF trace = NULL THEN <<>> ELSE <<mem[trace]>> \o Registry(mem, mem[trace].next)

\* the arena chain read head to tail: the bases in list order
RECURSIVE ArenaChain(_, _)
ArenaChain(mem, arena) ==
    IF arena = NULL THEN <<>> ELSE <<arena>> \o ArenaChain(mem, mem[arena].next)

\* what a caller can observe of a heap: the engine, the arena chain, the
\* registry records (address, size, call stack) in order, and the OS regions
Observable(hp, bt, ar, o) ==
    LET reg == Registry(bt, hp.backtrace)
    IN  [tlsf |-> hp.tlsf,
         grow_increment |-> hp.grow_increment,
         chain |-> ArenaChain(ar, hp.arena),
         registry |-> [i \in 1 .. Len(reg) |->
                         [address |-> reg[i].address, size |-> reg[i].size,
                          trace |-> reg[i].trace, frames |-> reg[i].frames]],
         os |-> o]

\* no trace recorder exists
NoTracer == [state |-> "None"]

Init ==
    /\ heap = [h \in HeapIds |-> IF h = 1 THEN [NoHeap EXCEPT !.state = "Uninit"] ELSE NoHeap]
    /\ thr = [t \in Threads |-> IdleThread]
    /\ arena_mem = EmptyFn
    /\ bt_mem = EmptyFn
    /\ os = [next |-> PageSize, held |-> {}, released |-> <<>>, ever |-> {}]
    /\ log = <<>>
    /\ ghost = [calls |-> 0,
                allocs_ok |-> [h \in HeapIds |-> 0],
                frees_ok |-> [h \in HeapIds |-> 0],
                live |-> [h \in HeapIds |-> <<>>],
                returned |-> [h \in HeapIds |-> {}]]
    /\ tracer = NoTracer

\* ------------------------------------------------------------ debug helpers
\* debug_print(k_print_error, "OUT OF MEMORY!\n")
OomLine == [level |-> "error", kind |-> "oom"]

\* debug_backtrace(trace, FRAME_MAX) called depth frames below main: the
\* return addresses innermost first, named by their level in the call stack
debug_backtrace(depth) == [i \in 1 .. Min(depth, FRAME_MAX) |-> depth - i + 1]

\* (int)x of a size_t x
IntCast(x) ==
    LET v == x % (2 ^ IntBits)
    IN  IF v >= 2 ^ (IntBits - 1) THEN v - 2 ^ IntBits ELSE v

\* ------------------------------------------------------------- heap_create
\* heap_create that registers the rest of the heap's own region as a pool
heap_create_prepool(h, grow_increment, os_ok) ==
    /\ heap[h].state = "Uninit"
    /\ LET base == IF os_ok THEN VirtualAllocBase(os, HeapRegionBytes) ELSE NULL
       IN  IF base = NULL
           THEN /\ log' = Append(log, OomLine)
                /\ heap' = [heap EXCEPT ![h].state = "CreateFailed"]
                /\ os' = os
           ELSE /\ heap' = [heap EXCEPT ![h] =
                        [state |-> "Active", base |-> base,
                         tlsf |-> tlsf_add_pool(tlsf_create, base, HeapRegionBytes),
                         grow_increment |-> grow_increment, arena |-> NULL,
                         backtrace |-> NULL, mutex |-> 0]]
                /\ os' = VirtualAllocCommit(os, HeapRegionBytes, h)
                /\ log' = log
    /\ UNCHANGED <<thr, arena_mem, bt_mem, ghost, tracer>>

\* heap_create without the test of VirtualAlloc's result
heap_create_nocheck(h, grow_increment, os_ok) ==
    /\ heap[h].state = "Uninit"
    /\ LET base == IF os_ok THEN VirtualAllocBase(os, HeapRegionBytes) ELSE NULL
       IN  /\ heap' = [heap EXCEPT ![h] =
                    [state |-> "Active", base |-> base, tlsf |-> tlsf_create,
                     grow_increment |-> grow_increment, arena |-> NULL,
                     backtrace |-> NULL, mutex |-> 0]]
           /\ os' = IF base = NULL THEN os ELSE VirtualAllocCommit(os, HeapRegionBytes, h)
           /\ log' = log
    /\ UNCHANGED <<thr, arena_mem, bt_mem, ghost, tracer>>

heap_create(h, grow_increment, os_ok) ==
    /\ heap[h].state = "Uninit"
    /\ LET base == IF os_ok THEN VirtualAllocBase(os, HeapRegionBytes) ELSE NULL
       IN  IF base = NULL
           THEN /\ log' = Append(log, OomLine)
                /\ heap' = [heap EXCEPT ![h].state = "CreateFailed"]
                /\ os' = os
           ELSE /\ heap' = [heap EXCEPT ![h] =
                        [state |-> "Active", base |-> base, tlsf |-> tlsf_create,
                         grow_increment |-> grow_increment, arena |-> NULL,
                         backtrace |-> NULL, mutex |-> 0]]
                /\ os' = VirtualAllocCommit(os, HeapRegionBytes, h)
                /\ log' = log
    /\ UNCHANGED <<thr, arena_mem, bt_mem, ghost, tracer>>

\* -------------------------------------------------------------- heap_alloc
\* ArenaSize with the request size not doubled
ArenaSize_nodouble(grow_increment, size) ==
    (Max(grow_increment, size % W) + SizeofArena) % W

ArenaSize(grow_increment, size) ==
    (Max(grow_increment, (size * 2) % W) + SizeofArena) % W

RequestBytes(size) == (size + SizeofBacktrace) % W

heap_alloc_call(t, h, size, alignment) ==
    /\ thr[t].pc = "idle"
    /\ heap[h].state = "Active"
    /\ thr' = [thr EXCEPT ![t] =
            [pc |-> "a_lock", op |-> "alloc", h |-> h, size |-> size,
             alignment |-> alignment, address |-> NULL, ret |-> NULL,
             logged |-> FALSE, grew |-> FALSE, depth |-> Depth(t),
             snap |-> NULL, tries |-> 0]]
    /\ ghost' = [ghost EXCEPT !.calls = @ + 1]
    /\ UNCHANGED <<heap, arena_mem, bt_mem, os, log, tracer>>

\* heap_alloc_lock that takes the mutex without waiting for it
heap_alloc_lock_nowait(t) ==
    /\ thr[t].pc = "a_lock"
    /\ heap' = [heap EXCEPT ![thr[t].h].mutex = t]
    /\ thr' = [thr EXCEPT ![t].pc = "a_try",
                          ![t].snap = Observable(heap[thr[t].h], bt_mem, arena_mem, os)]
    /\ UNCHANGED <<arena_mem, bt_mem, os, log, ghost, tracer>>

\* mutex_lock(heap->mutex)
heap_alloc_lock(t) ==
    /\ thr[t].pc = "a_lock"
    /\ heap[thr[t].h].mutex = 0
    /\ heap' = [heap EXCEPT ![thr[t].h].mutex = t]
    /\ thr' = [thr EXCEPT ![t].pc = "a_try",
                          ![t].snap = Observable(heap[thr[t].h], bt_mem, arena_mem, os)]
    /\ UNCHANGED <<arena_mem, bt_mem, os, log, ghost, tracer>>

\* heap_alloc_try that goes on to reserve an arena without asking the engine
heap_alloc_try_skip(t) ==
    /\ thr[t].pc = "a_try"
    /\ thr' = [thr EXCEPT ![t].pc = "a_grow"]
    /\ UNCHANGED <<heap, arena_mem, bt_mem, os, log, ghost, tracer>>

\* heap_alloc_try that asks the engine for the default alignment only
heap_alloc_try_malloc(t) ==
    /\ thr[t].pc = "a_try"
    /\ LET h == thr[t].h
           n == RequestBytes(thr[t].size)
           R == tlsf_memalign(heap[h].tlsf, 8, n)
       IN  IF R = {}
           THEN /\ thr' = [thr EXCEPT ![t].pc = "a_grow", ![t].tries = @ + 1]
                /\ heap' = heap
           ELSE \E a \in R :
                /\ heap' = [heap EXCEPT ![h].tlsf = tlsf_take(@, a, n)]
                /\ thr' = [thr EXCEPT ![t].pc = "a_record", ![t].address = a,
                                      ![t].tries = @ + 1]
    /\ UNCHANGED <<arena_mem, bt_mem, os, log, ghost, tracer>>

\* address = tlsf_memalign(heap->tlsf, alignment, size + sizeof(backtrace_t))
heap_alloc_try(t) ==
    /\ thr[t].pc = "a_try"
    /\ LET h == thr[t].h
           n == RequestBytes(thr[t].size)
           R == tlsf_memalign(heap[h].tlsf, thr[t].alignment, n)
       IN  IF R = {}
           THEN /\ thr' = [thr EXCEPT ![t].pc = "a_grow", ![t].tries = @ + 1]
                /\ heap' = heap
           ELSE \E a \in R :
                /\ heap' = [heap EXCEPT ![h].tlsf = tlsf_take(@, a, n)]
                /\ thr' = [thr EXCEPT ![t].pc = "a_record", ![t].address = a,
                                      ![t].tries = @ + 1]
    /\ UNCHANGED <<arena_mem, bt_mem, os, log, ghost, tracer>>

\* heap_alloc_grow that links the arena pointer before testing it
heap_alloc_grow_linknull(t, os_ok) ==
    /\ thr[t].pc = "a_grow"
    /\ LET h == thr[t].h
           arena_size == ArenaSize(heap[h].grow_increment, thr[t].size)
           bytes == (arena_size + PoolOverhead) % W
           arena == IF os_ok THEN VirtualAllocBase(os, bytes) ELSE NULL
       IN  IF arena = NULL
           THEN /\ log' = Append(log, OomLine)
                /\ thr' = [thr EXCEPT ![t] = Returned(thr[t], NULL, TRUE)]
                /\ heap' = [heap EXCEPT ![h].arena = NULL]
                /\ UNCHANGED <<arena_mem, os>>
           ELSE LET tlsf1 == tlsf_add_pool(heap[h].tlsf, arena + SizeofArena, arena_size)
                    n == RequestBytes(thr[t].size)
                    R == tlsf_memalign(tlsf1, thr[t].alignment, n)
                IN  /\ os' = VirtualAllocCommit(os, bytes, h)
                    /\ arena_mem' = (arena :> [pool |-> arena + SizeofArena,
                                               pool_bytes |-> arena_size,
                                               req |-> thr[t].size,
                                               next |-> heap[h].arena]) @@ arena_mem
                    /\ log' = log
                    /\ IF R = {}
                       THEN /\ heap' = [heap EXCEPT ![h].tlsf = tlsf1, ![h].arena = arena]
                            /\ thr' = [thr EXCEPT ![t].pc = "a_record", ![t].grew = TRUE,
                                                  ![t].tries = @ + 1]
                       ELSE \E a \in R :
                            /\ heap' = [heap EXCEPT ![h].tlsf = tlsf_take(tlsf1, a, n),
                                                    ![h].arena = arena]
                            /\ thr' = [thr EXCEPT ![t].pc = "a_record", ![t].grew = TRUE,
                                                  ![t].tries = @ + 1,
                                                  ![t].address = a]
    /\ UNCHANGED <<bt_mem, ghost, tracer>>

\* heap_alloc_grow that links the new arena behind the first one
heap_alloc_grow_second(t, os_ok) ==
    /\ thr[t].pc = "a_grow"
    /\ LET h == thr[t].h
           arena_size == ArenaSize(heap[h].grow_increment, thr[t].size)
           bytes == (arena_size + PoolOverhead) % W
           arena == IF os_ok THEN VirtualAllocBase(os, bytes) ELSE NULL
       IN  IF arena = NULL
           THEN /\ log' = Append(log, OomLine)
                /\ thr' = [thr EXCEPT ![t] = Returned(thr[t], NULL, TRUE)]
                /\ UNCHANGED <<heap, arena_mem, os>>
           ELSE LET tlsf1 == tlsf_add_pool(heap[h].tlsf, arena + SizeofArena, arena_size)
                    n == RequestBytes(thr[t].size)
                    R == tlsf_memalign(tlsf1, thr[t].alignment, n)
                IN  /\ os' = VirtualAllocCommit(os, bytes, h)
                    /\ arena_mem' = (arena :> [pool |-> arena + SizeofArena,
                                               pool_bytes |-> arena_size,
                                               req |-> thr[t].size,
                                               next |-> IF heap[h].arena = NULL THEN NULL
                                                        ELSE arena_mem[heap[h].arena].next])
                                    @@ (IF heap[h].arena = NULL THEN arena_mem
                                        ELSE [arena_mem EXCEPT ![heap[h].arena].next = arena])
                    /\ log' = log
                    /\ IF R = {}
                       THEN /\ heap' = [heap EXCEPT ![h].tlsf = tlsf1, ![h].arena = IF @ = NULL THEN arena ELSE @]
                            /\ thr' = [thr EXCEPT ![t].pc = "a_record", ![t].grew = TRUE,
                                                  ![t].tries = @ + 1]
                       ELSE \E a \in R :
                            /\ heap' = [heap EXCEPT ![h].tlsf = tlsf_take(tlsf1, a, n),
                                                    ![h].arena = IF @ = NULL THEN arena ELSE @]
                            /\ thr' = [thr EXCEPT ![t].pc = "a_record", ![t].grew = TRUE,
                                                  ![t].tries = @ + 1,
                                                  ![t].address = a]
    /\ UNCHANGED <<bt_mem, ghost, tracer>>

\* if (!address) { ... }: reserve an arena, add it as a pool, link it, retry
heap_alloc_grow(t, os_ok) ==
    /\ thr[t].pc = "a_grow"
    /\ LET h == thr[t].h
           arena_size == ArenaSize(heap[h].grow_increment, thr[t].size)
           bytes == (arena_size + PoolOverhead) % W
           arena == IF os_ok THEN VirtualAllocBase(os, bytes) ELSE NULL
       IN  IF arena = NULL
           THEN /\ log' = Append(log, OomLine)
                /\ thr' = [thr EXCEPT ![t] = Returned(thr[t], NULL, TRUE)]
                /\ UNCHANGED <<heap, arena_mem, os>>
           ELSE LET tlsf1 == tlsf_add_pool(heap[h].tlsf, arena + SizeofArena, arena_size)
                    n == RequestBytes(thr[t].size)
                    R == tlsf_memalign(tlsf1, thr[t].alignment, n)
                IN  /\ os' = VirtualAllocCommit(os, bytes, h)
                    /\ arena_mem' = (arena :> [pool |-> arena + SizeofArena,
                                               pool_bytes |-> arena_size,
                                               req |-> thr[t].size,
                                               next |-> heap[h].arena]) @@ arena_mem
                    /\ log' = log
                    /\ IF R = {}
                       THEN /\ heap' = [heap EXCEPT ![h].tlsf = tlsf1, ![h].arena = arena]
                            /\ thr' = [thr EXCEPT ![t].pc = "a_record", ![t].grew = TRUE,
                                                  ![t].tries = @ + 1]
                       ELSE \E a \in R :
                            /\ heap' = [heap EXCEPT ![h].tlsf = tlsf_take(tlsf1, a, n),
                                                    ![h].arena = arena]
                            /\ thr' = [thr EXCEPT ![t].pc = "a_record", ![t].grew = TRUE,
                                                  ![t].tries = @ + 1,
                                                  ![t].address = a]
    /\ UNCHANGED <<bt_mem, ghost, tracer>>

\* heap_alloc_record that writes the record and never links it
heap_alloc_record_nolink(t) ==
    /\ thr[t].pc = "a_record"
    /\ LET address == thr[t].address
           backtrace == (address + thr[t].size) % W
           trace == debug_backtrace(thr[t].depth)
       IN  IF address # NULL
           THEN bt_mem' = (backtrace :> [address |-> address, trace |-> trace,
                                         frames |-> Len(trace),
                                         next |-> heap[thr[t].h].backtrace,
                                         size |-> thr[t].size]) @@ bt_mem
           ELSE bt_mem' = bt_mem
    /\ thr' = [thr EXCEPT ![t].pc = "a_unlock"]
    /\ UNCHANGED <<heap, arena_mem, os, log, ghost, tracer>>

\* if (address) { ... }: write the backtrace_t behind the user block and push it
\* heap_alloc_record that links the record behind the last one
heap_alloc_record_tail(t) ==
    /\ thr[t].pc = "a_record"
    /\ LET h == thr[t].h
           address == thr[t].address
           backtrace == (address + thr[t].size) % W
           trace == debug_backtrace(thr[t].depth)
           reg == Registry(bt_mem, heap[h].backtrace)
           last == (reg[Len(reg)].address + reg[Len(reg)].size) % W
           rec == [address |-> address, trace |-> trace, frames |-> Len(trace),
                   next |-> NULL, size |-> thr[t].size]
       IN  IF address # NULL
           THEN IF reg = <<>>
                THEN /\ bt_mem' = (backtrace :> rec) @@ bt_mem
                     /\ heap' = [heap EXCEPT ![h].backtrace = backtrace]
                ELSE /\ bt_mem' = (backtrace :> rec) @@ [bt_mem EXCEPT ![last].next = backtrace]
                     /\ heap' = heap
           ELSE UNCHANGED <<bt_mem, heap>>
    /\ thr' = [thr EXCEPT ![t].pc = "a_unlock"]
    /\ UNCHANGED <<arena_mem, os, log, ghost, tracer>>

\* heap_alloc_record whose record points to itself
heap_alloc_record_selflink(t) ==
    /\ thr[t].pc = "a_record"
    /\ LET h == thr[t].h
           address == thr[t].address
           backtrace == (address + thr[t].size) % W
           trace == debug_backtrace(thr[t].depth)
       IN  IF address # NULL
           THEN /\ bt_mem' = (backtrace :> [address |-> address, trace |-> trace,
                                            frames |-> Len(trace),
                                            next |-> backtrace,
                                            size |-> thr[t].size]) @@ bt_mem
                /\ heap' = [heap EXCEPT ![h].backtrace = backtrace]
           ELSE UNCHANGED <<bt_mem, heap>>
    /\ thr' = [thr EXCEPT ![t].pc = "a_unlock"]
    /\ UNCHANGED <<arena_mem, os, log, ghost, tracer>>

heap_alloc_record(t) ==
    /\ thr[t].pc = "a_record"
    /\ LET h == thr[t].h
           address == thr[t].address
           backtrace == (address + thr[t].size) % W
           trace == debug_backtrace(thr[t].depth)
       IN  IF address # NULL
           THEN /\ bt_mem' = (backtrace :> [address |-> address, trace |-> trace,
                                            frames |-> Len(trace),
                                            next |-> heap[h].backtrace,
                                            size |-> thr[t].size]) @@ bt_mem
                /\ heap' = [heap EXCEPT ![h].backtrace = backtrace]
           ELSE UNCHANGED <<bt_mem, heap>>
    /\ thr' = [thr EXCEPT ![t].pc = "a_unlock"]
    /\ UNCHANGED <<arena_mem, os, log, ghost, tracer>>

\* a heap_free call of this address entered before the address was returned
\* and still waits for the mutex (a stale pointer freed by the caller): the
\* address counts as passed to heap_free
PendingFree(h, address) ==
    \E u \in Threads : thr[u].pc = "f_lock" /\ thr[u].h = h /\ thr[u].address = address

\* mutex_unlock(heap->mutex); return address
heap_alloc_unlock(t) ==
    /\ thr[t].pc = "a_unlock"
    /\ LET h == thr[t].h
           address == thr[t].address
       IN  /\ heap' = [heap EXCEPT ![h].mutex = 0]
           /\ ghost' = IF address = NULL THEN ghost
                       ELSE [ghost EXCEPT
                               !.allocs_ok[h] = @ + 1,
                               !.live[h] = IF PendingFree(h, address) THEN @
                                           ELSE Append(@, [address |-> address,
                                                           size |-> thr[t].size]),
                               !.returned[h] = @ \cup {address}]
           /\ thr' = [thr EXCEPT ![t] = Returned(thr[t], address, thr[t].logged)]
    /\ UNCHANGED <<arena_mem, bt_mem, os, log, tracer>>

\* --------------------------------------------------------------- heap_free
RemoveFirst(seq, address) ==
    IF \E i \in 1 .. Len(seq) : seq[i].address = address
    THEN LET k == SetMin({i \in 1 .. Len(seq) : seq[i].address = address})
         IN  SubSeq(seq, 1, k - 1) \o SubSeq(seq, k + 1, Len(seq))
    ELSE seq

heap_free_call(t, h, address) ==
    /\ thr[t].pc = "idle"
    /\ heap[h].state = "Active"
    /\ thr' = [thr EXCEPT ![t] =
            [pc |-> "f_lock", op |-> "free", h |-> h, size |-> 0,
             alignment |-> 0, address |-> address, ret |-> NULL,
             logged |-> FALSE, grew |-> FALSE, depth |-> 0,
             snap |-> NULL, tries |-> 0]]
    /\ ghost' = [ghost EXCEPT !.calls = @ + 1,
                              !.live[h] = RemoveFirst(@, address)]
    /\ UNCHANGED <<heap, arena_mem, bt_mem, os, log, tracer>>

\* mutex_lock(heap->mutex)
\* heap_free_lock on one mutex shared by every heap
heap_free_lock_global(t) ==
    /\ thr[t].pc = "f_lock"
    /\ \A h \in HeapIds : heap[h].mutex = 0
    /\ heap' = [heap EXCEPT ![thr[t].h].mutex = t]
    /\ thr' = [thr EXCEPT ![t].pc = "f_scan",
                          ![t].snap = Observable(heap[thr[t].h], bt_mem, arena_mem, os)]
    /\ UNCHANGED <<arena_mem, bt_mem, os, log, ghost, tracer>>

heap_free_lock(t) ==
    /\ thr[t].pc = "f_lock"
    /\ heap[thr[t].h].mutex = 0
    /\ heap' = [heap EXCEPT ![thr[t].h].mutex = t]
    /\ thr' = [thr EXCEPT ![t].pc = "f_scan",
                          ![t].snap = Observable(heap[thr[t].h], bt_mem, arena_mem, os)]
    /\ UNCHANGED <<arena_mem, bt_mem, os, log, ghost, tracer>>

\* while (trace->next) { if (trace->next->address == address) ... else
\* trace = trace->next; }: the record whose successor matches, or NULL
RECURSIVE ScanPrev(_, _, _)
ScanPrev(mem, trace, address) ==
    IF mem[trace].next = NULL THEN NULL
    ELSE IF mem[mem[trace].next].address = address THEN trace
    ELSE ScanPrev(mem, mem[trace].next, address)

Drop(mem, loc) == [x \in DOMAIN mem \ {loc} |-> mem[x]]

\* heap_free_scan that unlinks the head record whatever its address
heap_free_scan_anyhead(t) ==
    /\ thr[t].pc = "f_scan"
    /\ LET h == thr[t].h
           trace == heap[h].backtrace
       IN  IF trace # NULL
           THEN /\ heap' = [heap EXCEPT ![h].backtrace = bt_mem[trace].next,
                                        ![h].tlsf = tlsf_free(@, thr[t].address)]
                /\ bt_mem' = Drop(bt_mem, trace)
                /\ ghost' = [ghost EXCEPT !.frees_ok[h] = @ + 1]
                /\ thr' = [thr EXCEPT ![t].pc = "f_unlock", ![t].ret = thr[t].address]
           ELSE /\ thr' = [thr EXCEPT ![t].pc = "f_unlock"]
                /\ UNCHANGED <<heap, bt_mem, ghost>>
    /\ UNCHANGED <<arena_mem, os, log, tracer>>

\* heap_free_scan that hands the address to tlsf_free also when no record
\* matches
heap_free_scan_freeanyway(t) ==
    /\ thr[t].pc = "f_scan"
    /\ LET h == thr[t].h
           address == thr[t].address
           trace == heap[h].backtrace
       IN  IF trace # NULL /\ bt_mem[trace].address = address
           THEN /\ heap' = [heap EXCEPT ![h].backtrace = bt_mem[trace].next,
                                        ![h].tlsf = tlsf_free(@, address)]
                /\ bt_mem' = Drop(bt_mem, trace)
                /\ ghost' = [ghost EXCEPT !.frees_ok[h] = @ + 1]
                /\ thr' = [thr EXCEPT ![t].pc = "f_unlock", ![t].ret = address]
           ELSE IF trace # NULL /\ ScanPrev(bt_mem, trace, address) # NULL
           THEN LET prev == ScanPrev(bt_mem, trace, address)
                    hit == bt_mem[prev].next
                IN  /\ bt_mem' = Drop([bt_mem EXCEPT ![prev].next = bt_mem[hit].next], hit)
                    /\ heap' = [heap EXCEPT ![h].tlsf = tlsf_free(@, address)]
                    /\ ghost' = [ghost EXCEPT !.frees_ok[h] = @ + 1]
                    /\ thr' = [thr EXCEPT ![t].pc = "f_unlock", ![t].ret = address]
           ELSE /\ thr' = [thr EXCEPT ![t].pc = "f_unlock"]
                /\ heap' = [heap EXCEPT ![h].tlsf = tlsf_free(@, address)]
                /\ UNCHANGED <<bt_mem, ghost>>
    /\ UNCHANGED <<arena_mem, os, log, tracer>>

\* the scan of heap_free: unlink the record of address and free its block
heap_free_scan(t) ==
    /\ thr[t].pc = "f_scan"
    /\ LET h == thr[t].h
           address == thr[t].address
           trace == heap[h].backtrace
       IN  IF trace # NULL /\ bt_mem[trace].address = address
           THEN /\ heap' = [heap EXCEPT ![h].backtrace = bt_mem[trace].next,
                                        ![h].tlsf = tlsf_free(@, address)]
                /\ bt_mem' = Drop(bt_mem, trace)
                /\ ghost' = [ghost EXCEPT !.frees_ok[h] = @ + 1]
                /\ thr' = [thr EXCEPT ![t].pc = "f_unlock", ![t].ret = address]
           ELSE IF trace # NULL /\ ScanPrev(bt_mem, trace, address) # NULL
           THEN LET prev == ScanPrev(bt_mem, trace, address)
                    hit == bt_mem[prev].next
                IN  /\ bt_mem' = Drop([bt_mem EXCEPT ![prev].next = bt_mem[hit].next], hit)
                    /\ heap' = [heap EXCEPT ![h].tlsf = tlsf_free(@, address)]
                    /\ ghost' = [ghost EXCEPT !.frees_ok[h] = @ + 1]
                    /\ thr' = [thr EXCEPT ![t].pc = "f_unlock", ![t].ret = address]
           ELSE /\ thr' = [thr EXCEPT ![t].pc = "f_unlock"]
                /\ UNCHANGED <<heap, bt_mem, ghost>>
    /\ UNCHANGED <<arena_mem, os, log, tracer>>

\* heap_free_unlock that gives the head arena back to the OS once the
\* registry is empty
heap_free_unlock_shrink(t) ==
    /\ thr[t].pc = "f_unlock"
    /\ LET h == thr[t].h
           arena == heap[h].arena
       IN  IF heap[h].backtrace = NULL /\ arena # NULL
           THEN /\ os' = VirtualFree(os, arena)
                /\ heap' = [heap EXCEPT ![h].mutex = 0, ![h].arena = arena_mem[arena].next]
           ELSE /\ os' = os
                /\ heap' = [heap EXCEPT ![h].mutex = 0]
    /\ thr' = [thr EXCEPT ![t] = Returned(thr[t], NULL, FALSE)]
    /\ UNCHANGED <<arena_mem, bt_mem, log, ghost, tracer>>

\* mutex_unlock(heap->mutex)
heap_free_unlock(t) ==
    /\ thr[t].pc = "f_unlock"
    /\ heap' = [heap EXCEPT ![thr[t].h].mutex = 0]
    /\ thr' = [thr EXCEPT ![t] = Returned(thr[t], NULL, FALSE)]
    /\ UNCHANGED <<arena_mem, bt_mem, os, log, ghost, tracer>>

\* ------------------------------------------------------------ heap_destroy
\* "Memory leak of size %d bytes of data and %d bytes of overhead at address %p
\* with callstack:\n"
LeakLine_swapped(rec) ==
    [level |-> "warning", kind |-> "leak", size |-> IntCast(SizeofBacktrace),
     overhead |-> IntCast(rec.size), address |-> rec.address]

LeakLine(rec) ==
    [level |-> "warning", kind |-> "leak", size |-> IntCast(rec.size),
     overhead |-> IntCast(SizeofBacktrace), address |-> rec.address]

\* "[%i] %s\n", trace->frames - i - 1, symbol->Name  (i counted from 0)
FrameLine(rec, i) ==
    [level |-> "warning", kind |-> "frame", index |-> rec.frames - i - 1,
     name |-> rec.trace[i + 1]]

RECURSIVE FrameLines(_, _)
FrameLines(rec, i) ==
    IF i < rec.frames THEN <<FrameLine(rec, i)>> \o FrameLines(rec, i + 1) ELSE <<>>

RECURSIVE LeakReport(_)
LeakReport(recs) ==
    IF recs = <<>> THEN <<>>
    ELSE <<LeakLine(Head(recs))>> \o FrameLines(Head(recs), 0) \o LeakReport(Tail(recs))

\* the caller destroys the heap once its users are done (main.c): no call of
\* another thread is in progress
heap_destroy_call(t, h) ==
    /\ thr[t].pc = "idle"
    /\ \A u \in Threads : ~(thr[u].h = h /\ thr[u].pc # "idle")
    /\ heap[h].state = "Active"
    /\ thr' = [thr EXCEPT ![t] =
            [pc |-> "d_tlsf", op |-> "destroy", h |-> h, size |-> 0,
             alignment |-> 0, address |-> NULL, ret |-> NULL,
             logged |-> FALSE, grew |-> FALSE, depth |-> 0,
             snap |-> NULL, tries |-> 0]]
    /\ heap' = [heap EXCEPT ![h].state = "Destroying"]
    /\ UNCHANGED <<arena_mem, bt_mem, os, log, ghost, tracer>>

\* tlsf_destroy(heap->tlsf)
RECURSIVE FreeAll(_, _)
FreeAll(o, bases) ==
    IF bases = <<>> THEN o ELSE FreeAll(VirtualFree(o, Head(bases)), Tail(bases))

\* heap_destroy_tlsf that releases the arenas at once
heap_destroy_tlsf_arenasfirst(t) ==
    /\ thr[t].pc = "d_tlsf"
    /\ heap' = [heap EXCEPT ![thr[t].h].tlsf = tlsf_destroy(@)]
    /\ os' = FreeAll(os, ArenaChain(arena_mem, heap[thr[t].h].arena))
    /\ thr' = [thr EXCEPT ![t].pc = "d_report"]
    /\ UNCHANGED <<arena_mem, bt_mem, log, ghost, tracer>>

heap_destroy_tlsf(t) ==
    /\ thr[t].pc = "d_tlsf"
    /\ heap' = [heap EXCEPT ![thr[t].h].tlsf = tlsf_destroy(@)]
    /\ thr' = [thr EXCEPT ![t].pc = "d_report"]
    /\ UNCHANGED <<arena_mem, bt_mem, os, log, ghost, tracer>>

\* while (trace) { debug_print(...); for (...) debug_print(...); trace = trace->next; }
heap_destroy_report(t) ==
    /\ thr[t].pc = "d_report"
    /\ log' = log \o LeakReport(Registry(bt_mem, heap[thr[t].h].backtrace))
    /\ thr' = [thr EXCEPT ![t].pc = "d_arenas"]
    /\ UNCHANGED <<heap, arena_mem, bt_mem, os, ghost, tracer>>

\* heap_destroy_arenas that releases only the first arena of the chain
heap_destroy_arenas_headonly(t) ==
    /\ thr[t].pc = "d_arenas"
    /\ LET chain == ArenaChain(arena_mem, heap[thr[t].h].arena)
       IN  os' = IF chain = <<>> THEN os ELSE VirtualFree(os, Head(chain))
    /\ thr' = [thr EXCEPT ![t].pc = "d_mutex"]
    /\ UNCHANGED <<heap, arena_mem, bt_mem, log, ghost, tracer>>

\* while (arena) { next = arena->next; VirtualFree(arena, 0, MEM_RELEASE); arena = next; }
heap_destroy_arenas(t) ==
    /\ thr[t].pc = "d_arenas"
    /\ os' = FreeAll(os, ArenaChain(arena_mem, heap[thr[t].h].arena))
    /\ thr' = [thr EXCEPT ![t].pc = "d_mutex"]
    /\ UNCHANGED <<heap, arena_mem, bt_mem, log, ghost, tracer>>

\* mutex_destroy(heap->mutex)
heap_destroy_mutex(t) ==
    /\ thr[t].pc = "d_mutex"
    /\ heap' = [heap EXCEPT ![thr[t].h].mutex = -1]
    /\ thr' = [thr EXCEPT ![t].pc = "d_heap"]
    /\ UNCHANGED <<arena_mem, bt_mem, os, log, ghost, tracer>>

\* VirtualFree(heap, 0, MEM_RELEASE)
heap_destroy_heap(t) ==
    /\ thr[t].pc = "d_heap"
    /\ os' = VirtualFree(os, heap[thr[t].h].base)
    /\ heap' = [heap EXCEPT ![thr[t].h].state = "Destroyed"]
    /\ thr' = [thr EXCEPT ![t] = Returned(thr[t], NULL, FALSE)]
    /\ UNCHANGED <<arena_mem, bt_mem, log, ghost, tracer>>

\* ----------------------------------------------------------- specification
FreeArgs(h) == ghost.returned[h] \cup {BogusAddress}

Next ==
    \/ \E h \in HeapIds, g \in GrowIncrements, ok \in BOOLEAN : heap_create(h, g, ok)
    \/ \E t \in Threads, h \in HeapIds, s \in Sizes, a \in Alignments :
          ghost.calls < MaxCalls /\ heap_alloc_call(t, h, s, a)
    \/ \E t \in Threads : heap_alloc_lock(t)
    \/ \E t \in Threads : heap_alloc_try(t)
    \/ \E t \in Threads, ok \in BOOLEAN : heap_alloc_grow(t, ok)
    \/ \E t \in Threads : heap_alloc_record(t)
    \/ \E t \in Threads : heap_alloc_unlock(t)
    \/ \E t \in Threads, h \in HeapIds : \E a \in FreeArgs(h) :
          ghost.calls < MaxCalls /\ heap_free_call(t, h, a)
    \/ \E t \in Threads : heap_free_lock(t)
    \/ \E t \in Threads : heap_free_scan(t)
    \/ \E t \in Threads : heap_free_unlock(t)
    \/ \E t \in Threads, h \in HeapIds : heap_destroy_call(t, h)
    \/ \E t \in Threads : heap_destroy_tlsf(t)
    \/ \E t \in Threads : heap_destroy_report(t)
    \/ \E t \in Threads : heap_destroy_arenas(t)
    \/ \E t \in Threads : heap_destroy_mutex(t)
    \/ \E t \in Threads : heap_destroy_heap(t)

Spec == Init /\ [][Next]_vars

\* a thread's steps inside a call
Step(t) ==
    \/ heap_alloc_try(t) \/ (\E ok \in BOOLEAN : heap_alloc_grow(t, ok))
    \/ heap_alloc_record(t) \/ heap_alloc_unlock(t)
    \/ heap_free_scan(t) \/ heap_free_unlock(t)
    \/ heap_destroy_tlsf(t) \/ heap_destroy_report(t) \/ heap_destroy_arenas(t)
    \/ heap_destroy_mutex(t) \/ heap_destroy_heap(t)

\* fair scheduling: a thread that can step does, and a thread that waits on
\* a mutex that keeps becoming free gets it
FairSpec ==
    /\ Spec
    /\ \A t \in Threads : WF_vars(Step(t))
    /\ \A t \in Threads : SF_vars(heap_alloc_lock(t) \/ heap_free_lock(t))

\* ------------------------------------------------------------------ claims
Active(h) == heap[h].state = "Active"

RegistryOf(h) == Registry(bt_mem, heap[h].backtrace)

ChainOf(h) == ArenaChain(arena_mem, heap[h].arena)

Inside(t, h) == thr[t].h = h /\ thr[t].pc # "idle"

InCS(t, h) ==
    /\ thr[t].h = h
    /\ thr[t].pc \in {"a_try", "a_grow", "a_record", "a_unlock", "f_scan", "f_unlock"}

\* heap_alloc calls that pushed their record and are about to return it
Returning(h) ==
    {t \in Threads : thr[t].h = h /\ thr[t].pc = "a_unlock" /\ thr[t].address # NULL}

\* C1: on an Active heap the number of records in the registry equals the
\* number of heap_alloc calls that returned a non-null address (a call that
\* pushed its record and is about to return counts) minus the number of
\* heap_free calls that found and unlinked a record.
C1_RegistryCount ==
    \A h \in HeapIds : Active(h) =>
        Len(RegistryOf(h)) =
            ghost.allocs_ok[h] + Cardinality(Returning(h)) - ghost.frees_ok[h]

C1_Witness ==
    \E h \in HeapIds :
        /\ Active(h)
        /\ ghost.allocs_ok[h] = 1 /\ ghost.frees_ok[h] = 1
        /\ Returning(h) # {}
        /\ Len(RegistryOf(h)) = 1

\* C2: every address returned by heap_alloc and not yet passed to heap_free
\* (nor already handed to a heap_free call that was waiting for the mutex
\* when the address was returned) has exactly one record in the registry,
\* carrying the size of that heap_alloc, and no two records of the registry
\* carry the same address.
C2_OneRecordPerLiveAddress ==
    \A h \in HeapIds : Active(h) =>
        LET reg == RegistryOf(h)
        IN  /\ \A i \in 1 .. Len(ghost.live[h]) :
                 /\ Cardinality({k \in 1 .. Len(reg) :
                        reg[k].address = ghost.live[h][i].address}) = 1
                 /\ \A k \in 1 .. Len(reg) :
                        reg[k].address = ghost.live[h][i].address
                            => reg[k].size = ghost.live[h][i].size
            /\ \A j, k \in 1 .. Len(reg) : reg[j].address = reg[k].address => j = k

C2_Witness ==
    \E h \in HeapIds :
        /\ Active(h)
        /\ Len(ghost.live[h]) = 2
        /\ ghost.live[h][1].size # ghost.live[h][2].size
        /\ \E t \in Threads : thr[t].pc = "f_unlock" /\ thr[t].ret = NULL

\* C3: at most one thread is between mutex_lock and mutex_unlock of
\* heap_alloc or heap_free of one heap, that thread holds the heap's mutex,
\* and every step that changes the engine, the arena chain or the registry
\* of an Active heap is a step of the thread holding its mutex.
C3_MutualExclusion ==
    [][\A h \in HeapIds : (Active(h) /\ heap'[h].state = "Active") =>
          /\ Cardinality({t \in Threads : InCS(t, h)}) <= 1
          /\ \A t \in Threads : InCS(t, h) => heap[h].mutex = t
          /\ ( \/ heap'[h].tlsf # heap[h].tlsf
               \/ heap'[h].arena # heap[h].arena
               \/ heap'[h].backtrace # heap[h].backtrace
               \/ Registry(bt_mem', heap'[h].backtrace) # RegistryOf(h) )
             => \E t \in Threads :
                    /\ heap[h].mutex = t
                    /\ InCS(t, h)
                    /\ thr'[t] # thr[t]
                    /\ \A u \in Threads \ {t} : thr'[u] = thr[u]]_vars

C3_Witness ==
    \E h \in HeapIds, t, u \in Threads :
        /\ Active(h)
        /\ InCS(t, h) /\ thr[t].pc = "a_record" /\ thr[t].grew
        /\ thr[u].h = h /\ thr[u].pc \in {"a_lock", "f_lock"}

\* C4: whenever no thread is inside heap_alloc or heap_free of an Active
\* heap, the heap's mutex is free (every call that took it released it).
C4_LockFreeWhenNoCall ==
    \A h \in HeapIds :
        (Active(h) /\ \A t \in Threads : ~Inside(t, h)) => heap[h].mutex = 0

\* C5: under fair scheduling every heap_alloc and heap_free call returns.
C5_EveryCallReturns ==
    \A t \in Threads : (thr[t].pc # "idle") ~> (thr[t].pc = "idle")

\* the leak header lines heap_destroy printed for heap h, as <<address, size>>
LeakHeaders(h) ==
    LET lines == SelectSeq(log, LAMBDA l : l.kind = "leak" /\ l.address \in ghost.returned[h])
    IN  [i \in 1 .. Len(lines) |-> [address |-> lines[i].address, size |-> lines[i].size]]

Reverse(seq) == [i \in 1 .. Len(seq) |-> seq[Len(seq) - i + 1]]

\* C6: heap_destroy prints one leak header per allocation returned and never
\* freed, with the size and address of its heap_alloc, most recent first.
C6_LeakReport ==
    \A h \in HeapIds :
        heap[h].state = "Destroyed" => LeakHeaders(h) = Reverse(ghost.live[h])

\* C7: when the first engine attempt failed and the OS supplied the new
\* arena, the retry succeeds and heap_alloc has a non-null address.
C7_RetrySucceeds ==
    \A t \in Threads :
        (thr[t].pc = "a_record" /\ thr[t].grew) => thr[t].address # NULL

\* C8: a heap_alloc call that returned NULL logged an out-of-memory error.
C8_FailureLogged ==
    \A t \in Threads :
        (thr[t].pc = "idle" /\ thr[t].op = "alloc" /\ thr[t].ret = NULL)
            => thr[t].logged

\* C9: every arena of the chain has a pool of at least
\* max(grow_increment, 2 * requested size) + sizeof(arena_t) bytes.
C9_ArenaSizeBound ==
    \A h \in HeapIds : Active(h) =>
        \A i \in 1 .. Len(ChainOf(h)) :
            LET a == arena_mem[ChainOf(h)[i]]
            IN  a.pool_bytes >= Max(heap[h].grow_increment, 2 * a.req) + SizeofArena

\* C10 as claimed, on sizes whose doubling is representable: a request
\* larger than grow_increment adds an arena of at least 2 * size bytes.
C10_LargeRequestGrows ==
    \A t \in Threads :
        LET h == thr[t].h
        IN  ( /\ thr[t].pc = "a_record"
              /\ thr[t].size > heap[h].grow_increment
              /\ 2 * thr[t].size + SizeofArena < W )
            => /\ thr[t].grew
               /\ arena_mem[heap[h].arena].pool_bytes >= 2 * thr[t].size

\* C10: a request larger than grow_increment that the existing pools cannot
\* serve adds, when the OS supplies the region, one arena at the head of the
\* chain whose pool has (max(grow_increment, 2 * size mod 2^w) +
\* sizeof(arena_t)) mod 2^w bytes, which is at least 2 * size whenever
\* 2 * size + sizeof(arena_t) < 2^w.
C10_LargeRequestArena ==
    \A t \in Threads :
        LET h == thr[t].h
            size == thr[t].size
            a == arena_mem[heap[h].arena]
        IN  ( /\ thr[t].pc = "a_record"
              /\ size > heap[h].grow_increment
              /\ thr[t].grew )
            => /\ a.req = size
               /\ a.pool_bytes =
                    (Max(heap[h].grow_increment, (2 * size) % W) + SizeofArena) % W
               /\ (2 * size + SizeofArena < W => a.pool_bytes >= 2 * size)

C10_Witness ==
    \E t \in Threads :
        /\ thr[t].pc = "a_record"
        /\ thr[t].size > heap[thr[t].h].grow_increment
        /\ thr[t].grew
        /\ thr[t].address # NULL
        /\ Len(ChainOf(thr[t].h)) = 2

\* the regions the heap holds from the OS and their total size
RegionsOf(o, h) == {r \in o.held : r.owner = h}

RECURSIVE SumBytes(_)
SumBytes(S) ==
    IF S = {} THEN 0
    ELSE LET r == CHOOSE x \in S : TRUE IN r.bytes + SumBytes(S \ {r})

ReservedBytes(o, h) == SumBytes(RegionsOf(o, h))

IsSuffix(old, new) ==
    /\ Len(old) <= Len(new)
    /\ SubSeq(new, Len(new) - Len(old) + 1, Len(new)) = old

\* C11: while the heap stays Active, no step lowers the number of bytes it
\* has reserved from the OS, releases one of its regions or removes an arena
\* from its chain: the chain only grows at the head.
C11_ReservedNeverDecreases ==
    [][\A h \in HeapIds : (Active(h) /\ heap'[h].state = "Active") =>
          /\ ReservedBytes(os', h) >= ReservedBytes(os, h)
          /\ RegionsOf(os, h) \subseteq RegionsOf(os', h)
          /\ IsSuffix(ChainOf(h), ArenaChain(arena_mem', heap'[h].arena))]_vars

C11_Witness ==
    \E h \in HeapIds :
        /\ Active(h)
        /\ Len(ChainOf(h)) = 2
        /\ ghost.frees_ok[h] = 1
        /\ RegistryOf(h) = <<>>

HasRecord(h, address) ==
    \E i \in 1 .. Len(RegistryOf(h)) : RegistryOf(h)[i].address = address

\* C12: heap_free of an address that has no record in the registry changes
\* nothing of the heap (registry, arena chain, engine; tlsf_free is not
\* called), and the call then releases the mutex and returns.
C12_UnknownFreeIsNoOp ==
    [][\A t \in Threads :
          LET h == thr[t].h
          IN  /\ ( /\ thr[t].pc = "f_scan"
                   /\ thr'[t] # thr[t]
                   /\ ~HasRecord(h, thr[t].address) )
                 => /\ heap'[h] = heap[h]
                    /\ bt_mem' = bt_mem
                    /\ arena_mem' = arena_mem
                    /\ thr'[t].pc = "f_unlock"
              /\ (thr[t].pc = "f_unlock" /\ thr'[t] # thr[t])
                 => /\ heap'[h] = [heap[h] EXCEPT !.mutex = 0]
                    /\ bt_mem' = bt_mem
                    /\ thr'[t].pc = "idle"]_vars

C12_Witness ==
    \E t \in Threads :
        /\ thr[t].pc = "f_unlock"
        /\ thr[t].ret = NULL
        /\ thr[t].address = BogusAddress
        /\ Len(RegistryOf(thr[t].h)) = 2

\* ------------------------------------------- heap_destroy while in use
\* heap_destroy takes no lock and nothing in heap.c keeps it from being
\* called while another thread is inside heap_alloc or heap_free
heap_destroy_call_race(t, h) ==
    /\ thr[t].pc = "idle"
    /\ heap[h].state = "Active"
    /\ thr' = [thr EXCEPT ![t] =
            [pc |-> "d_tlsf", op |-> "destroy", h |-> h, size |-> 0,
             alignment |-> 0, address |-> NULL, ret |-> NULL,
             logged |-> FALSE, grew |-> FALSE, depth |-> 0,
             snap |-> NULL, tries |-> 0]]
    /\ heap' = [heap EXCEPT ![h].state = "Destroying"]
    /\ UNCHANGED <<arena_mem, bt_mem, os, log, ghost, tracer>>

InDestroy(t, h) ==
    thr[t].h = h /\ thr[t].pc \in {"d_tlsf", "d_report", "d_arenas", "d_mutex", "d_heap"}

InAllocOrFree(t, h) ==
    /\ thr[t].h = h
    /\ thr[t].pc \in {"a_lock", "a_try", "a_grow", "a_record", "a_unlock",
                      "f_lock", "f_scan", "f_unlock"}

\* heap_destroy has torn the engine down while a heap_alloc or heap_free of
\* the same heap is in progress: what that call does next is undefined, the
\* behaviours of the model end there
Raced ==
    \E h \in HeapIds, t, u \in Threads :
        InDestroy(t, h) /\ thr[t].pc # "d_tlsf" /\ InAllocOrFree(u, h)

RaceFreeStep == ~Raced /\ Next

NextRace ==
    \/ RaceFreeStep
    \/ \E t \in Threads, h \in HeapIds : heap_destroy_call_race(t, h)

SpecRace == Init /\ [][NextRace]_vars

\* C13: no step of heap_destroy past its entry (engine teardown, registry
\* walk, arena release) is taken while another thread is inside the critical
\* section of heap_alloc or heap_free of the same heap.
C13_DestroyExcludesCalls ==
    \A h \in HeapIds, t, u \in Threads :
        ~(InDestroy(t, h) /\ thr[t].pc # "d_tlsf" /\ InCS(u, h))

\* how many times base was passed to VirtualFree
TimesReleased(o, base) == Cardinality({i \in 1 .. Len(o.released) : o.released[i] = base})

\* C14: once heap_destroy has returned, every region the OS ever reserved for
\* the heap (its own region and each arena added by heap_alloc) has been
\* released exactly once, and none of them is still held.
C14_DestroyReleasesAll ==
    \A h \in HeapIds : heap[h].state = "Destroyed" =>
        /\ RegionsOf(os, h) = {}
        /\ heap[h].base \in {r.base : r \in {e \in os.ever : e.owner = h}}
        /\ \A r \in os.ever : r.owner = h => TimesReleased(os, r.base) = 1

C14_Witness ==
    \E h \in HeapIds :
        /\ heap[h].state = "Destroyed"
        /\ Cardinality({e \in os.ever : e.owner = h}) = 3
        /\ Len(os.released) = 3

\* ------------------------------------------------------------- two heaps
\* both heaps can be created; one request shape, so that the interleavings of
\* calls on the two heaps are what the state space is spent on
TwoSizes == {72}

TwoAlignments == {8}

TwoGrowIncrements == {16}

\* heap_alloc and heap_free calls made on the two heaps together
TwoCalls == 3

InitTwo ==
    /\ heap = [h \in HeapIds |-> [NoHeap EXCEPT !.state = "Uninit"]]
    /\ thr = [t \in Threads |-> IdleThread]
    /\ arena_mem = EmptyFn
    /\ bt_mem = EmptyFn
    /\ os = [next |-> PageSize, held |-> {}, released |-> <<>>, ever |-> {}]
    /\ log = <<>>
    /\ ghost = [calls |-> 0,
                allocs_ok |-> [h \in HeapIds |-> 0],
                frees_ok |-> [h \in HeapIds |-> 0],
                live |-> [h \in HeapIds |-> <<>>],
                returned |-> [h \in HeapIds |-> {}]]
    /\ tracer = NoTracer

NextTwo ==
    \/ \E h \in HeapIds, g \in TwoGrowIncrements, ok \in BOOLEAN : heap_create(h, g, ok)
    \/ \E t \in Threads, h \in HeapIds, s \in TwoSizes, a \in TwoAlignments :
          ghost.calls < TwoCalls /\ heap_alloc_call(t, h, s, a)
    \/ \E t \in Threads : heap_alloc_lock(t)
    \/ \E t \in Threads : heap_alloc_try(t)
    \/ \E t \in Threads, ok \in BOOLEAN : heap_alloc_grow(t, ok)
    \/ \E t \in Threads : heap_alloc_record(t)
    \/ \E t \in Threads : heap_alloc_unlock(t)
    \/ \E t \in Threads, h \in HeapIds : \E a \in ghost.returned[h] :
          ghost.calls < TwoCalls /\ heap_free_call(t, h, a)
    \/ \E t \in Threads : heap_free_lock(t)
    \/ \E t \in Threads : heap_free_scan(t)
    \/ \E t \in Threads : heap_free_unlock(t)
    \/ \E t \in Threads, h \in HeapIds : heap_destroy_call(t, h)
    \/ \E t \in Threads : heap_destroy_tlsf(t)
    \/ \E t \in Threads : heap_destroy_report(t)
    \/ \E t \in Threads : heap_destroy_arenas(t)
    \/ \E t \in Threads : heap_destroy_mutex(t)
    \/ \E t \in Threads : heap_destroy_heap(t)

SpecTwo == InitTwo /\ [][NextTwo]_vars

\* C15: a step of heap_alloc, heap_free or heap_destroy on heap A leaves
\* every other heap B as it was (lock state, grow_increment, engine, registry,
\* arena chain, OS regions), and a call waiting for A's mutex can take it
\* exactly when A's mutex is free, whatever the state of B's mutex.
C15_HeapsIndependent ==
    [][/\ \A t \in Threads : thr[t].pc \in {"a_lock", "f_lock"} =>
            ((ENABLED (heap_alloc_lock(t) \/ heap_free_lock(t)))
                <=> heap[thr[t].h].mutex = 0)
       /\ \A t \in Threads : thr'[t] # thr[t] =>
            \A B \in HeapIds \ {thr'[t].h} :
                /\ heap'[B] = heap[B]
                /\ Registry(bt_mem', heap'[B].backtrace) = RegistryOf(B)
                /\ ArenaChain(arena_mem', heap'[B].arena) = ChainOf(B)
                /\ RegionsOf(os', B) = RegionsOf(os, B)]_vars

\* heap 1's mutex is stuck held (no call on heap 1 is in progress) while a
\* heap_alloc on heap 2 has its address and a heap_free on heap 2 took the
\* step before
C15_Witness ==
    \E t \in Threads :
        /\ Active(1) /\ heap[1].mutex # 0
        /\ \A u \in Threads : ~Inside(u, 1)
        /\ thr[t].h = 2 /\ thr[t].pc = "a_unlock" /\ thr[t].address # NULL
        /\ Len(RegistryOf(2)) = 1

\* C17: the non-null address heap_alloc is about to return is a multiple of
\* the alignment it was called with, whether the first engine attempt or the
\* retry after growing produced it.
C17_AddressAligned ==
    \A t \in Threads :
        (thr[t].pc \in {"a_record", "a_unlock"} /\ thr[t].address # NULL)
            => thr[t].address % thr[t].alignment = 0

\* a 64-aligned address served from an existing pool, next to an allocation
\* that was served from a freshly grown arena
C17_Witness ==
    \E t \in Threads :
        /\ thr[t].pc = "a_unlock" /\ thr[t].address # NULL
        /\ thr[t].alignment = 64 /\ ~thr[t].grew
        /\ thr[t].address % 64 = 0
        /\ Len(RegistryOf(thr[t].h)) = 2

\* C18: a heap_create that got no region from the OS appends one error line
\* to the log and leaves everything else as it was: the heap is not Active and
\* never becomes so, no mutex, engine or region exists for it; other heaps go
\* on being created and used. A heap_create that makes the heap Active holds
\* its region and logs nothing.
C18_CreateFailure ==
    [][\A h \in HeapIds :
        /\ (heap[h].state = "Uninit" /\ heap'[h].state # "Uninit" /\ os' = os) =>
              /\ heap'[h] = [NoHeap EXCEPT !.state = "CreateFailed"]
              /\ log' = Append(log, OomLine)
              /\ \A g \in HeapIds \ {h} : heap'[g] = heap[g]
              /\ UNCHANGED <<thr, arena_mem, bt_mem, ghost>>
        /\ (heap[h].state = "Uninit" /\ heap'[h].state = "Active") =>
              /\ \E r \in os'.held : r.owner = h /\ r.base = heap'[h].base /\ r.base # NULL
              /\ log' = log
        /\ heap[h].state = "CreateFailed" =>
              /\ heap'[h] = heap[h]
              /\ RegionsOf(os', h) = {}
              /\ \A t \in Threads : ~(thr'[t].h = h /\ thr'[t].pc # "idle")]_vars

\* heap 1 failed to be created, heap 2 was created afterwards and serves an
\* allocation
C18_Witness ==
    /\ heap[1].state = "CreateFailed"
    /\ Head(log) = OomLine
    /\ Active(2) /\ Len(RegistryOf(2)) = 1
    /\ \A r \in os.held : r.owner = 2

\* the leak header lines of the log, whole
LeakLines == SelectSeq(log, LAMBDA l : l.kind = "leak")

\* C19 (as stated): every leak header carries exactly a size and an address,
\* the size requested by and the address returned from one heap_alloc whose
\* address was not freed, and no other field.
C19_HeaderSizeAddressOnly ==
    \A h \in HeapIds : heap[h].state = "Destroyed" =>
        \A i \in 1 .. Len(LeakLines) :
            /\ DOMAIN LeakLines[i] = {"level", "kind", "size", "address"}
            /\ \E k \in 1 .. Len(ghost.live[h]) :
                  /\ ghost.live[h][k].address = LeakLines[i].address
                  /\ ghost.live[h][k].size = LeakLines[i].size

\* C19 (amended): every leak header carries three fields: the recorded size
\* converted to int, sizeof(backtrace_t) converted to int as the overhead, and
\* the address, those of one heap_alloc whose address was not freed.
C19_HeaderSizeOverheadAddress ==
    \A h \in HeapIds : heap[h].state = "Destroyed" =>
        \A i \in 1 .. Len(LeakLines) :
            /\ DOMAIN LeakLines[i] = {"level", "kind", "size", "overhead", "address"}
            /\ LeakLines[i].level = "warning"
            /\ LeakLines[i].overhead = SizeofBacktrace
            /\ \E k \in 1 .. Len(ghost.live[h]) :
                  /\ ghost.live[h][k].address = LeakLines[i].address
                  /\ IntCast(ghost.live[h][k].size) = LeakLines[i].size

C19_Witness ==
    \E h \in HeapIds :
        /\ heap[h].state = "Destroyed"
        /\ Len(LeakLines) = 2
        /\ LeakLines[1].size # LeakLines[2].size
        /\ ghost.allocs_ok[h] = 2

\* C20: a heap_alloc that got an address pushes exactly one record, for that
\* address and size, in front of the registry and leaves the records behind
\* it as they were; a heap_free of the address of the head record leaves
\* exactly the records behind it, in order. So a heap_alloc followed at once
\* by the heap_free of its address restores the registry, and a heap destroyed
\* when every returned address has been freed prints no leak line.
C20_AllocFreeRestores ==
    [][\A t \in Threads : LET h == thr[t].h IN
        /\ (thr[t].pc = "a_record" /\ thr'[t].pc = "a_unlock" /\ thr[t].address # NULL) =>
              LET reg == Registry(bt_mem', heap'[h].backtrace)
              IN  /\ reg # <<>>
                  /\ Head(reg).address = thr[t].address
                  /\ Head(reg).size = thr[t].size
                  /\ Tail(reg) = RegistryOf(h)
        /\ (/\ thr[t].pc = "f_scan" /\ thr'[t].pc = "f_unlock"
            /\ RegistryOf(h) # <<>>
            /\ Head(RegistryOf(h)).address = thr[t].address) =>
              Registry(bt_mem', heap'[h].backtrace) = Tail(RegistryOf(h))
        /\ (thr[t].pc = "d_heap" /\ heap'[h].state = "Destroyed" /\ ghost.live[h] = <<>>) =>
              SelectSeq(log', LAMBDA l : l.kind = "leak") = <<>>]_vars

\* create, allocate, free, destroy: no leak line
C20_Witness ==
    \E h \in HeapIds :
        /\ heap[h].state = "Destroyed"
        /\ ghost.allocs_ok[h] = 1 /\ ghost.frees_ok[h] = 1
        /\ ghost.calls = 2
        /\ ghost.live[h] = <<>>
        /\ LeakLines = <<>>

\* ------------------------------------------------- the sequential heap
\* heap_alloc and heap_free run alone from start to end on the observable
\* state s of heap h: the set of [after, ret] they can end with (the engine
\* may serve from any pool, the OS may refuse a region); ret of heap_free,
\* which returns nothing, is the address whose record it unlinked
SeqRecord(s, a, size, depth) ==
    LET trace == debug_backtrace(depth)
    IN  [s EXCEPT !.registry = <<[address |-> a, size |-> size, trace |-> trace,
                                  frames |-> Len(trace)]>> \o @]

SeqServe(s, R, n, size, depth) ==
    {[after |-> SeqRecord([s EXCEPT !.tlsf = tlsf_take(@, a, n)], a, size, depth),
      ret |-> a] : a \in R}

SeqAlloc(s, h, size, alignment, depth) ==
    LET n == RequestBytes(size)
        R == tlsf_memalign(s.tlsf, alignment, n)
        arena_size == ArenaSize(s.grow_increment, size)
        bytes == (arena_size + PoolOverhead) % W
        arena == VirtualAllocBase(s.os, bytes)
        grown == [s EXCEPT !.tlsf = tlsf_add_pool(@, arena + SizeofArena, arena_size),
                           !.chain = <<arena>> \o @,
                           !.os = VirtualAllocCommit(@, bytes, h)]
        R1 == tlsf_memalign(grown.tlsf, alignment, n)
    IN  IF R # {} THEN SeqServe(s, R, n, size, depth)
        ELSE {[after |-> s, ret |-> NULL]} \cup
             (IF arena = NULL THEN {}
              ELSE IF R1 = {} THEN {[after |-> grown, ret |-> NULL]}
              ELSE SeqServe(grown, R1, n, size, depth))

SeqFree(s, address) ==
    IF \E i \in 1 .. Len(s.registry) : s.registry[i].address = address
    THEN {[after |-> [s EXCEPT !.registry = RemoveFirst(@, address),
                               !.tlsf = tlsf_free(@, address)],
           ret |-> address]}
    ELSE {[after |-> s, ret |-> NULL]}

\* C16: every heap_alloc and heap_free call returns with the result, and
\* leaves the heap (engine, arena chain, registry, OS regions) in the state,
\* that the same call run alone would give from the state the heap had when
\* the call acquired the mutex; and between acquisitions nothing but the
\* holder of the mutex changes that state. So a concurrent execution equals
\* the sequential one in the order of the mutex acquisitions.
C16_Linearizable ==
    [][\A t \in Threads :
        LET h == thr[t].h
            after == Observable(heap'[h], bt_mem', arena_mem', os')
        IN  /\ (thr[t].pc \in {"a_grow", "a_unlock"} /\ thr'[t].pc = "idle") =>
                  [after |-> after, ret |-> thr'[t].ret] \in
                      SeqAlloc(thr[t].snap, h, thr[t].size, thr[t].alignment, thr[t].depth)
            /\ (thr[t].pc = "f_unlock" /\ thr'[t].pc = "idle") =>
                  [after |-> after, ret |-> thr[t].ret] \in
                      SeqFree(thr[t].snap, thr[t].address)
            /\ (/\ InCS(t, h) /\ heap[h].mutex = t /\ thr'[t] = thr[t]
                /\ Active(h) /\ heap'[h].state = "Active") =>
                  after = Observable(heap[h], bt_mem, arena_mem, os)]_vars

\* a heap_alloc about to return the second record of the registry while a
\* heap_free called meanwhile waits for the mutex
C16_Witness ==
    \E t, u \in Threads :
        /\ thr[t].pc = "a_unlock" /\ thr[t].address # NULL
        /\ Len(thr[t].snap.registry) = 1
        /\ thr[u].pc = "f_lock" /\ thr[u].h = thr[t].h

\* the addresses of a sequence of records
Addresses(seq) == {seq[i].address : i \in 1 .. Len(seq)}

\* C21: on an Active heap the registry read head to tail holds the live
\* allocations (returned, not passed to heap_free) with their sizes in the
\* reverse of the order in which they were allocated; the only other records
\* are those of calls in progress (pushed and not yet returned, or passed to
\* heap_free and not yet unlinked).
C21_RegistryNewestFirst ==
    \A h \in HeapIds : Active(h) =>
        LET live == ghost.live[h]
            kept == SelectSeq(RegistryOf(h), LAMBDA r : r.address \in Addresses(live))
        IN  [i \in 1 .. Len(kept) |-> [address |-> kept[i].address, size |-> kept[i].size]]
                = Reverse(live)

C21_Witness ==
    \E h \in HeapIds :
        /\ Active(h)
        /\ Len(ghost.live[h]) = 2
        /\ Len(RegistryOf(h)) = 2
        /\ RegistryOf(h)[1].address = ghost.live[h][2].address
        /\ RegistryOf(h)[1].address # RegistryOf(h)[2].address

\* ------------------------------------------------------ one caller, longer
\* one thread makes up to DeepCalls calls on one heap whose first arena
\* serves them all, so that registries of three records and frees of the
\* head, a middle and the last record happen
DeepCalls == 4

DeepSizes == {8, 72}

NextDeep ==
    \/ \E ok \in BOOLEAN : heap_create(1, BigGrow, ok)
    \/ \E s \in DeepSizes : ghost.calls < DeepCalls /\ heap_alloc_call(1, 1, s, 8)
    \/ heap_alloc_lock(1)
    \/ heap_alloc_try(1)
    \/ \E ok \in BOOLEAN : heap_alloc_grow(1, ok)
    \/ heap_alloc_record(1)
    \/ heap_alloc_unlock(1)
    \/ \E a \in FreeArgs(1) : ghost.calls < DeepCalls /\ heap_free_call(1, 1, a)
    \/ heap_free_lock(1)
    \/ heap_free_scan(1)
    \/ heap_free_unlock(1)
    \/ heap_destroy_call(1, 1)
    \/ heap_destroy_tlsf(1)
    \/ heap_destroy_report(1)
    \/ heap_destroy_arenas(1)
    \/ heap_destroy_mutex(1)
    \/ heap_destroy_heap(1)

SpecDeep == Init /\ [][NextDeep]_vars

\* the records of a registry without their links
Records(reg) ==
    [i \in 1 .. Len(reg) |-> [address |-> reg[i].address, size |-> reg[i].size,
                               trace |-> reg[i].trace, frames |-> reg[i].frames]]

\* C22: the scan of a heap_free whose address has a record removes from the
\* registry the first record from the head with that address, wherever it
\* stands, and nothing else: the other records keep their address, size and
\* frames and their order.
C22_FreeUnlinksFirstMatch ==
    [][\A t \in Threads : LET h == thr[t].h IN
        (thr[t].pc = "f_scan" /\ thr'[t].pc = "f_unlock" /\ HasRecord(h, thr[t].address)) =>
            LET after == Registry(bt_mem', heap'[h].backtrace)
            IN  /\ Len(after) = Len(RegistryOf(h)) - 1
                /\ Records(after) = RemoveFirst(Records(RegistryOf(h)), thr[t].address)]_vars

\* the middle one of three records was unlinked
C22_Witness ==
    \E t \in Threads : LET reg == RegistryOf(thr[t].h) IN
        /\ thr[t].pc = "f_unlock" /\ thr[t].ret # NULL
        /\ ghost.calls = 4 /\ ghost.allocs_ok[thr[t].h] = 3
        /\ Len(reg) = 2
        /\ reg[2].address < thr[t].ret /\ thr[t].ret < reg[1].address

\* C23: a heap_alloc that returns because the OS refused the region of a new
\* arena leaves the arena chain and the registry as they were when the call
\* took the mutex, and the step itself links no arena and inserts no record.
C23_RefusedGrowChangesNothing ==
    [][\A t \in Threads : LET h == thr[t].h IN
        (thr[t].pc = "a_grow" /\ thr'[t].pc = "idle") =>
            /\ thr'[t].ret = NULL
            /\ ArenaChain(arena_mem', heap'[h].arena) = thr[t].snap.chain
            /\ Records(Registry(bt_mem', heap'[h].backtrace)) = thr[t].snap.registry
            /\ arena_mem' = arena_mem /\ bt_mem' = bt_mem
            /\ heap'[h].arena = heap[h].arena /\ heap'[h].backtrace = heap[h].backtrace
            /\ os' = os]_vars

\* the OS refused the second arena of a heap holding one arena and one record
C23_Witness ==
    \E t \in Threads : LET h == thr[t].h IN
        /\ thr[t].pc = "idle" /\ thr[t].op = "alloc" /\ thr[t].ret = NULL /\ thr[t].logged
        /\ Active(h)
        /\ Len(ChainOf(h)) = 1 /\ Len(RegistryOf(h)) = 1

\* C24: a step of heap_alloc links a new arena only when the engine cannot
\* serve the request from the pools it has; a heap_alloc call ends with at
\* most one arena more than the heap had when it took the mutex, and with none
\* more when the pools of that moment could serve the request; it asks the
\* engine once before growing and once after, never more.
C24_GrowOnlyAfterEngineFailed ==
    [][\A t \in Threads :
        LET h == thr[t].h
            n == RequestBytes(thr[t].size)
            after == ArenaChain(arena_mem', heap'[h].arena)
        IN  /\ (thr[t].pc \in {"a_try", "a_grow", "a_record", "a_unlock"}
                    /\ thr'[t] # thr[t] /\ after # ChainOf(h)) =>
                  /\ thr[t].pc = "a_grow" /\ thr[t].tries = 1
                  /\ tlsf_memalign(heap[h].tlsf, thr[t].alignment, n) = {}
                  /\ Tail(after) = ChainOf(h)
            /\ (thr[t].pc \in {"a_grow", "a_unlock"} /\ thr'[t].pc = "idle") =>
                  /\ Len(after) <= Len(thr[t].snap.chain) + 1
                  /\ thr[t].tries \in {1, 2}
                  /\ thr[t].tries = 2 <=> Len(after) = Len(thr[t].snap.chain) + 1
                  /\ tlsf_memalign(thr[t].snap.tlsf, thr[t].alignment, n) # {}
                        => (after = thr[t].snap.chain /\ thr[t].tries = 1)]_vars

\* a call that was served, after one failed attempt, from the second arena of
\* the heap
C24_Witness ==
    \E t \in Threads : LET h == thr[t].h IN
        /\ thr[t].pc = "a_unlock" /\ thr[t].address # NULL
        /\ thr[t].grew /\ thr[t].tries = 2
        /\ Len(ChainOf(h)) = 2 /\ Len(thr[t].snap.chain) = 1
        /\ Len(RegistryOf(h)) = 2

\* C25: while a heap is Active every step leaves each arena of its chain as
\* it is (pool, byte count, successor, OS region) and either leaves the chain
\* as it is or puts one arena, reserved by that step, in front of it; the
\* chain therefore lists the arenas newest first.
C25_ArenasImmutable ==
    [][\A h \in HeapIds : (Active(h) /\ heap'[h].state = "Active") =>
        LET chain == ChainOf(h)
            after == ArenaChain(arena_mem', heap'[h].arena)
        IN  /\ \A i \in 1 .. Len(chain) :
                 /\ chain[i] \in DOMAIN arena_mem'
                 /\ arena_mem'[chain[i]] = arena_mem[chain[i]]
                 /\ {r \in os'.held : r.base = chain[i]} = {r \in os.held : r.base = chain[i]}
            /\ \/ after = chain
               \/ /\ Tail(after) = chain
                  /\ Head(after) \notin {r.base : r \in os.ever}
                  /\ \E r \in os'.held : r.base = Head(after) /\ r.owner = h
            /\ \A i, j \in 1 .. Len(chain) : i < j =>
                 chain[i] # chain[j] /\ arena_mem[chain[i]].next = chain[i + 1]]_vars

\* two arenas, the newer first, after calls that allocated from both
C25_Witness ==
    \E h \in HeapIds :
        /\ Active(h)
        /\ Len(ChainOf(h)) = 2
        /\ arena_mem[ChainOf(h)[1]].next = ChainOf(h)[2]
        /\ arena_mem[ChainOf(h)[2]].next = NULL
        /\ Len(RegistryOf(h)) = 2
        /\ \A t \in Threads : thr[t].pc = "idle"

\* the record at location loc lies in a region the OS still holds for heap h
InHeldRegion(o, h, loc) ==
    \E r \in RegionsOf(o, h) : r.base <= loc /\ loc < r.base + RoundUp(r.bytes, PageSize)

RecordLocations(h) ==
    {(RegistryOf(h)[i].address + RegistryOf(h)[i].size) % W : i \in 1 .. Len(RegistryOf(h))}

HeldBases(o, h) == {r.base : r \in RegionsOf(o, h)}

\* C26: the effects of heap_destroy come in this order: the engine is torn
\* down; then the leak report is printed, reading only records that lie in
\* regions still held; then the arenas are released; then the mutex is
\* destroyed; then the heap's own region is released.
C26_DestroyOrder ==
    [][\A t \in Threads : LET h == thr[t].h IN
        (thr[t].op = "destroy" /\ thr[t].pc # "idle" /\ thr'[t] # thr[t]) =>
            \* the engine is torn down first
            /\ (heap'[h].tlsf.alive # heap[h].tlsf.alive) =>
                  /\ log' = log /\ os' = os /\ heap[h].mutex # -1
                  /\ HeldBases(os, h) = {e.base : e \in {x \in os.ever : x.owner = h}}
            \* the report
            /\ (thr[t].pc = "d_report") =>
                  /\ ~heap[h].tlsf.alive
                  /\ log' = log \o LeakReport(RegistryOf(h))
                  /\ \A loc \in RecordLocations(h) : InHeldRegion(os, h, loc)
                  /\ os' = os /\ heap[h].mutex # -1
            \* the arenas
            /\ (\E a \in HeldBases(os, h) \ HeldBases(os', h) : a # heap[h].base) =>
                  /\ ~heap[h].tlsf.alive
                  /\ thr[t].pc \notin {"d_tlsf", "d_report"}
                  /\ log' = log
                  /\ heap[h].mutex # -1 /\ heap'[h].mutex # -1
                  /\ HeldBases(os', h) = {heap[h].base}
            \* the mutex
            /\ (heap'[h].mutex = -1 /\ heap[h].mutex # -1) =>
                  /\ HeldBases(os, h) = {heap[h].base} /\ os' = os
            \* the heap's own region
            /\ (heap[h].base \in HeldBases(os, h) \ HeldBases(os', h)) =>
                  /\ heap[h].mutex = -1
                  /\ HeldBases(os', h) = {}
                  /\ heap'[h].state = "Destroyed"]_vars

\* a destroyed heap that had two arenas and reported two leaks
C26_Witness ==
    \E h \in HeapIds :
        /\ heap[h].state = "Destroyed" /\ heap[h].mutex = -1 /\ ~heap[h].tlsf.alive
        /\ Len(ChainOf(h)) = 2
        /\ Len(LeakLines) = 2
        /\ HeldBases(os, h) = {}

\* ------------------------------------------ sizes near the top of size_t
\* a size for which size + sizeof(backtrace_t) wraps around
WrapSize == W - 8

\* the engine block heap_alloc obtained for the record rec
BlockOf(h, rec) == {b \in heap[h].tlsf.blocks : b.addr = rec.address}

\* the record of rec was written where (char*)address + size points
RecordInsideBlock(h, rec) ==
    LET loc == (rec.address + rec.size) % W
    IN  \E b \in BlockOf(h, rec) :
            /\ b.addr <= loc
            /\ loc + SizeofBacktrace <= b.addr + b.size

\* a record was written outside the block of its allocation: the bytes it
\* overwrote belong to something else and what follows is undefined
Corrupted ==
    \E h \in HeapIds : Active(h) /\
        \E i \in 1 .. Len(RegistryOf(h)) : ~RecordInsideBlock(h, RegistryOf(h)[i])

WrapStep == ~Corrupted /\ NextDeep

NextWrap ==
    \/ WrapStep
    \/ ~Corrupted /\ ghost.calls < DeepCalls /\ heap_alloc_call(1, 1, WrapSize, 8)

SpecWrap == Init /\ [][NextWrap]_vars

\* C27: the record of every allocation in the registry lies at
\* [address + size, address + size + sizeof(backtrace_t)) inside the engine
\* block obtained for that allocation, and overlaps the user range
\* [address, address + size) of no allocation in the registry.
C27_RecordInsideOwnBlock ==
    \A h \in HeapIds : Active(h) =>
        LET reg == RegistryOf(h)
        IN  \A i \in 1 .. Len(reg) :
                /\ RecordInsideBlock(h, reg[i])
                /\ \A j \in 1 .. Len(reg) :
                      LET loc == (reg[i].address + reg[i].size) % W
                      IN  \/ loc + SizeofBacktrace <= reg[j].address
                          \/ reg[j].address + reg[j].size <= loc

\* the frame lines the report owes a record: one per captured frame in
\* capture order, the innermost labelled 0
IndexedFrames(rec) ==
    [j \in 1 .. rec.frames |->
        [level |-> "warning", kind |-> "frame", index |-> j - 1, name |-> rec.trace[j]]]

RECURSIVE IndexedReport(_)
IndexedReport(recs) ==
    IF recs = <<>> THEN <<>>
    ELSE <<"header">> \o IndexedFrames(Head(recs)) \o IndexedReport(Tail(recs))

\* the report in the log, each header line reduced to a mark
ReportLines ==
    LET lines == SelectSeq(log, LAMBDA l : l.kind \in {"leak", "frame"})
    IN  [i \in 1 .. Len(lines) |-> IF lines[i].kind = "leak" THEN "header" ELSE lines[i]]

\* C28: every record holds at most FRAME_MAX frames, and the report of a
\* destroyed heap has after each header exactly one line per captured frame
\* of its record, in capture order, labelled 0 for the innermost call up to
\* k - 1 for the outermost captured one.
C28_FrameLines ==
    \A h \in HeapIds : heap[h].state = "Destroyed" =>
        /\ \A i \in 1 .. Len(RegistryOf(h)) :
              /\ RegistryOf(h)[i].frames <= FRAME_MAX
              /\ RegistryOf(h)[i].frames = Len(RegistryOf(h)[i].trace)
        /\ ReportLines = IndexedReport(RegistryOf(h))

\* C29: tlsf_free is called in a step exactly when that step is the scan of
\* a heap_free holding the mutex that unlinks a record, and it is called for
\* the address of that record; so it is called at most once per record ever
\* pushed, and the scan of a heap_free whose address has no record (a second
\* heap_free of an address with no heap_alloc in between) does not call it.
C29_EngineFreeIffUnlink ==
    [][\A h \in HeapIds : (Active(h) /\ heap'[h].state = "Active") =>
        LET before == RegistryOf(h)
            after == Registry(bt_mem', heap'[h].backtrace)
            unlinking == {t \in Threads :
                            /\ thr[t].h = h /\ thr[t].pc = "f_scan" /\ thr'[t].pc = "f_unlock"
                            /\ heap[h].mutex = t
                            /\ Len(after) = Len(before) - 1}
        IN  /\ heap'[h].tlsf.nfree \in {heap[h].tlsf.nfree, heap[h].tlsf.nfree + 1}
            /\ (heap'[h].tlsf.nfree = heap[h].tlsf.nfree + 1) <=> (unlinking # {})
            /\ \A t \in unlinking :
                  /\ HasRecord(h, thr[t].address)
                  /\ heap[h].tlsf.blocks \ heap'[h].tlsf.blocks
                        = {b \in heap[h].tlsf.blocks : b.addr = thr[t].address}
                  /\ heap'[h].tlsf.blocks \subseteq heap[h].tlsf.blocks
            /\ heap'[h].tlsf.nfree <= ghost'.allocs_ok[h]
                                        + Cardinality({t \in Threads :
                                            /\ thr'[t].h = h /\ thr'[t].pc = "a_unlock"
                                            /\ thr'[t].address # NULL})]_vars

\* the second heap_free of an address finished its scan without a record:
\* the engine's free was called once, for the first
C29_Witness ==
    \E t \in Threads : LET h == thr[t].h IN
        /\ thr[t].pc = "f_unlock" /\ thr[t].ret = NULL
        /\ thr[t].address \in ghost.returned[h]
        /\ ghost.allocs_ok[h] = 1 /\ ghost.frees_ok[h] = 1
        /\ heap[h].tlsf.nfree = 1
        /\ RegistryOf(h) = <<>>

\* the pointers a walk of the registry follows from trace, at most fuel
\* records far: it ends with the pointer it stopped at
RECURSIVE WalkLocs(_, _, _)
WalkLocs(mem, trace, fuel) ==
    IF trace = NULL \/ fuel = 0 \/ trace \notin DOMAIN mem THEN <<trace>>
    ELSE <<trace>> \o WalkLocs(mem, mem[trace].next, fuel - 1)

\* C30: from the head of the registry of an Active or being-destroyed heap
\* the next pointers lead, through records that exist and without visiting
\* one twice, to NULL, after at most as many records as the engine has
\* blocks allocated; a scan or walk of the registry therefore ends.
C30_RegistryAcyclic ==
    \A h \in HeapIds : heap[h].state \in {"Active", "Destroying"} =>
        LET w == WalkLocs(bt_mem, heap[h].backtrace, Cardinality(DOMAIN bt_mem))
            n == Len(w) - 1
        IN  /\ w[Len(w)] = NULL
            /\ \A i \in 1 .. n : w[i] \in DOMAIN bt_mem
            /\ \A i, j \in 1 .. n : w[i] = w[j] => i = j
            /\ n <= Cardinality(heap[h].tlsf.blocks)

\* a heap_free about to scan a registry of two records for the last one
C30_Witness ==
    \E t \in Threads : LET h == thr[t].h IN
        /\ thr[t].pc = "f_scan"
        /\ Len(WalkLocs(bt_mem, heap[h].backtrace, 3)) = 3
        /\ bt_mem[bt_mem[heap[h].backtrace].next].address = thr[t].address
        /\ bt_mem[bt_mem[heap[h].backtrace].next].next = NULL

\* C31: a heap that heap_create made Active has no arena, no record, no
\* pool, a free mutex and one of the grow increments heap_create is called
\* with; and as long as the engine has no pool, the first attempt of a
\* heap_alloc fails and the call goes to the OS for a new arena: the arena is
\* linked when the OS supplies it, the call returns NULL when it does not.
C31_FreshHeap ==
    [][/\ \A h \in HeapIds : (heap[h].state = "Uninit" /\ heap'[h].state = "Active") =>
            /\ ArenaChain(arena_mem', heap'[h].arena) = <<>>
            /\ Registry(bt_mem', heap'[h].backtrace) = <<>>
            /\ heap'[h].tlsf.pools = {} /\ heap'[h].tlsf.blocks = {}
            /\ heap'[h].mutex = 0
            /\ heap'[h].grow_increment \in GrowIncrements \cup TwoGrowIncrements
       /\ \A t \in Threads : LET h == thr[t].h IN
            /\ (thr[t].pc = "a_try" /\ thr'[t] # thr[t] /\ thr[t].snap.tlsf.pools = {}) =>
                  /\ thr'[t].pc = "a_grow"
                  /\ heap'[h] = heap[h] /\ os' = os
            /\ (thr[t].pc = "a_grow" /\ thr'[t] # thr[t] /\ thr[t].snap.tlsf.pools = {}) =>
                  \/ /\ Len(ArenaChain(arena_mem', heap'[h].arena)) = 1
                     /\ Cardinality(RegionsOf(os', h)) = 2
                     /\ Cardinality(heap'[h].tlsf.pools) = 1
                     /\ thr'[t].pc = "a_record"
                  \/ /\ os' = os /\ heap'[h] = heap[h]
                     /\ thr'[t].pc = "idle" /\ thr'[t].ret = NULL
                     /\ log' = Append(log, OomLine)]_vars

\* the first heap_alloc on a fresh heap got its address from the arena it
\* had to reserve
C31_Witness ==
    \E t \in Threads : LET h == thr[t].h IN
        /\ thr[t].pc = "a_record" /\ thr[t].address # NULL /\ thr[t].grew
        /\ thr[t].snap.chain = <<>> /\ thr[t].snap.registry = <<>>
        /\ ghost.calls = 1
        /\ Len(ChainOf(h)) = 1

\* ======================================================= the trace recorder
\* trace.c on top of a heap that serves every request: heap_alloc hands out
\* the next unused address and does not clear the memory, heap_free takes an
\* address back
Capacities == {2, 3}
MaxCaptures == 1

Names == {"a", "b"}

\* what may stand in a field that was never written: zero, or a value that is
\* no address of a node of the trace
Wild == BogusAddress

Uninit == {NULL, Wild}

\* the thread that calls trace_create
Creator == 1

TraceAlloc(tr, node) ==
    [tr EXCEPT !.mem = (tr.next_addr :> node) @@ tr.mem,
               !.live = tr.live \cup {tr.next_addr},
               !.next_addr = tr.next_addr + 1]

\* heap_free(trace->heap, p) called by the function by: the call is recorded
\* with whether p was live
TraceFree(tr, p, by) ==
    [tr EXCEPT !.frees = Append(tr.frees, [address |-> p, live |-> p \in tr.live,
                                           by |-> by]),
               !.live = tr.live \ {p},
               !.mem = [q \in DOMAIN tr.mem \ {p} |-> tr.mem[q]]]

ThreadNode(tid, next, event_next) ==
    [kind |-> "thread", tid |-> tid, next |-> next, event_next |-> event_next]

StackNode(name, next) == [kind |-> "stack", name |-> name, next |-> next]

Event(name, event_type, tid) ==
    [kind |-> "event", name |-> name, event_type |-> event_type, tid |-> tid]

TraceIdle == [pc |-> "idle", name |-> "none"]

\* while (thread_list_temp) { if (thread_list_temp->tid == tid) ...;
\* thread_list_temp = thread_list_temp->next; }: the node found, the end of
\* the list, or a pointer that leads nowhere
RECURSIVE FindThread(_, _, _)
FindThread(mem, p, tid) ==
    IF p = NULL THEN [res |-> "end", at |-> NULL]
    ELSE IF p \notin DOMAIN mem THEN [res |-> "wild", at |-> p]
    ELSE IF mem[p].tid = tid THEN [res |-> "found", at |-> p]
    ELSE FindThread(mem, mem[p].next, tid)

\* trace->event_t_array[trace->event_count] = temp; trace->event_count += 1
StoreEvent(tr, ev) ==
    [tr EXCEPT !.slots = Append(tr.slots, ev),
               !.event_count = tr.event_count + 1,
               !.fault = IF tr.event_count >= tr.capacity THEN "overflow" ELSE tr.fault]

\* trace_create: the thread_list node gets its tid only, next and event_next
\* keep what the memory held
trace_create(event_capacity, u_next, u_event_next) ==
    /\ tracer.state = "None"
    /\ LET t0 == [state |-> "Created", capacity |-> event_capacity, event_count |-> 0,
                  slots |-> <<>>, tracing |-> 0, captures |-> 0, mutex |-> 0, thread_list |-> NULL,
                  object |-> NULL, array |-> NULL,
                  mem |-> EmptyFn, live |-> {}, next_addr |-> 1, frees |-> <<>>,
                  fault |-> "none", pcs |-> [t \in Threads |-> TraceIdle],
                  open |-> [t \in Threads |-> <<>>]]
           t1 == [TraceAlloc(t0, [kind |-> "trace"]) EXCEPT !.object = t0.next_addr]
           t2 == [TraceAlloc(t1, ThreadNode(Creator, u_next, u_event_next))
                     EXCEPT !.thread_list = t1.next_addr]
           t3 == [TraceAlloc(t2, [kind |-> "array"]) EXCEPT !.array = t2.next_addr]
       IN  tracer' = t3
    /\ UNCHANGED <<heap, thr, arena_mem, bt_mem, os, log, ghost>>

Capturing == tracer.state = "Created" /\ tracer.fault = "none"

\* trace_capture_start: trace->tracing = 1
trace_capture_start ==
    /\ Capturing
    /\ tracer.tracing = 0
    /\ tracer.captures < MaxCaptures
    /\ tracer' = [tracer EXCEPT !.tracing = 1, !.captures = @ + 1]
    /\ UNCHANGED <<heap, thr, arena_mem, bt_mem, os, log, ghost>>

\* trace_capture_stop: under the mutex, allocates the file buffer, writes the
\* events, frees the buffer, trace->tracing = 0
trace_capture_stop ==
    /\ Capturing
    /\ tracer.tracing = 1
    /\ tracer.mutex = 0
    /\ LET t1 == TraceAlloc(tracer, [kind |-> "buffer"])
           t2 == TraceFree(t1, tracer.next_addr, "stop")
       IN  tracer' = [t2 EXCEPT !.tracing = 0]
    /\ UNCHANGED <<heap, thr, arena_mem, bt_mem, os, log, ghost>>

\* trace_duration_push: if (trace->tracing == 1)
trace_duration_push_call(t, name) ==
    /\ Capturing
    /\ tracer.pcs[t].pc = "idle"
    /\ tracer.tracing = 1
    /\ tracer' = [tracer EXCEPT !.pcs[t] = [pc |-> "push_lock", name |-> name]]
    /\ UNCHANGED <<heap, thr, arena_mem, bt_mem, os, log, ghost>>

\* mutex_lock(trace->mutex)
trace_duration_push_lock(t) ==
    /\ Capturing
    /\ tracer.pcs[t].pc = "push_lock"
    /\ tracer.mutex = 0
    /\ tracer' = [tracer EXCEPT !.mutex = t, !.pcs[t].pc = "push_body"]
    /\ UNCHANGED <<heap, thr, arena_mem, bt_mem, os, log, ghost>>

\* the body of trace_duration_push up to mutex_unlock; u is what the memory
\* of a new event_stack_t holds in its next field
trace_duration_push_body(t, u) ==
    /\ Capturing
    /\ tracer.pcs[t].pc = "push_body"
    /\ LET name == tracer.pcs[t].name
           ev == tracer.next_addr
           t1 == TraceAlloc(tracer, Event(name, 0, t))
           f == FindThread(t1.mem, t1.thread_list, t)
           done(tr) == [StoreEvent(tr, ev) EXCEPT !.mutex = 0, !.pcs[t] = TraceIdle,
                                                  !.open[t] = <<name>> \o @]
       IN  IF f.res = "wild"
           THEN tracer' = [t1 EXCEPT !.fault = "wild_list"]
           ELSE IF f.res = "found"
           THEN LET t2 == TraceAlloc(t1, StackNode(name, t1.mem[f.at].event_next))
                IN  tracer' = done([t2 EXCEPT !.mem[f.at].event_next = t1.next_addr])
           ELSE LET t2 == TraceAlloc(t1, ThreadNode(t, t1.thread_list, NULL))
                    t3 == TraceAlloc(t2, StackNode(name, u))
                IN  tracer' = done([t3 EXCEPT !.mem[t1.next_addr].event_next = t2.next_addr,
                                              !.thread_list = t1.next_addr])
    /\ UNCHANGED <<heap, thr, arena_mem, bt_mem, os, log, ghost>>

\* trace_duration_pop: if (trace->tracing == 1)
trace_duration_pop_call(t) ==
    /\ Capturing
    /\ tracer.pcs[t].pc = "idle"
    /\ tracer.tracing = 1
    /\ tracer' = [tracer EXCEPT !.pcs[t] = [pc |-> "pop_lock", name |-> "none"]]
    /\ UNCHANGED <<heap, thr, arena_mem, bt_mem, os, log, ghost>>

trace_duration_pop_lock(t) ==
    /\ Capturing
    /\ tracer.pcs[t].pc = "pop_lock"
    /\ tracer.mutex = 0
    /\ tracer' = [tracer EXCEPT !.mutex = t, !.pcs[t].pc = "pop_body"]
    /\ UNCHANGED <<heap, thr, arena_mem, bt_mem, os, log, ghost>>

\* the body of trace_duration_pop up to mutex_unlock; when no node of the
\* thread is found temp->name is never written
trace_duration_pop_body(t) ==
    /\ Capturing
    /\ tracer.pcs[t].pc = "pop_body"
    /\ LET ev == tracer.next_addr
           f == FindThread(tracer.mem, tracer.thread_list, t)
           top == tracer.mem[f.at].event_next
           done(tr) == [StoreEvent(tr, ev) EXCEPT !.mutex = 0, !.pcs[t] = TraceIdle,
                            !.open[t] = IF @ = <<>> THEN @ ELSE Tail(@)]
       IN  IF f.res = "wild"
           THEN tracer' = [TraceAlloc(tracer, Event("unwritten", 1, t))
                              EXCEPT !.fault = "wild_list"]
           ELSE IF f.res = "end"
           THEN tracer' = done(TraceAlloc(tracer, Event("unwritten", 1, t)))
           ELSE IF top = NULL
           THEN tracer' = [TraceAlloc(tracer, Event("unwritten", 1, t))
                              EXCEPT !.fault = "null_stack"]
           ELSE IF top \notin DOMAIN tracer.mem
           THEN tracer' = [TraceAlloc(tracer, Event("unwritten", 1, t))
                              EXCEPT !.fault = "wild_stack"]
           ELSE LET t1 == TraceAlloc(tracer, Event(tracer.mem[top].name, 1, t))
                    t2 == TraceFree(t1, top, "pop")
                IN  tracer' = done([t2 EXCEPT !.mem[f.at].event_next = tracer.mem[top].next])
    /\ UNCHANGED <<heap, thr, arena_mem, bt_mem, os, log, ghost>>

\* while (event_temp) { next_event = event_temp->next; heap_free(event_temp);
\* event_temp = next_event; }
RECURSIVE FreeStack(_, _)
FreeStack(tr, p) ==
    IF p = NULL THEN tr
    ELSE IF p \notin DOMAIN tr.mem THEN [tr EXCEPT !.fault = "wild_stack"]
    ELSE FreeStack(TraceFree(tr, p, "destroy"), tr.mem[p].next)

\* while (temp) { ...; next_thread = temp->next; heap_free(temp); temp = next_thread; }
RECURSIVE FreeThreads(_, _)
FreeThreads(tr, p) ==
    IF p = NULL THEN tr
    ELSE IF p \notin DOMAIN tr.mem THEN [tr EXCEPT !.fault = "wild_list"]
    ELSE LET t1 == FreeStack(tr, tr.mem[p].event_next)
         IN  IF t1.fault # "none" THEN t1
             ELSE FreeThreads(TraceFree(t1, p, "destroy"), tr.mem[p].next)

\* for (int i = 0; i <= trace->event_count; i++) heap_free(event_t_array[i]):
\* array is the content of the slots read, the last one never written
RECURSIVE FreeSlots(_, _)
FreeSlots(tr, array) ==
    IF array = <<>> THEN tr
    ELSE FreeSlots(TraceFree(tr, Head(array), "destroy"), Tail(array))

\* trace_destroy, called once no thread is inside the recorder; v is what the
\* slot at index event_count holds
trace_destroy(v) ==
    /\ Capturing
    /\ tracer.mutex = 0
    /\ \A t \in Threads : tracer.pcs[t].pc = "idle"
    /\ LET t1 == FreeThreads(tracer, tracer.thread_list)
           t2 == FreeSlots(t1, Append(tracer.slots, v))
           t3 == TraceFree(t2, tracer.array, "destroy")
           t4 == TraceFree(t3, tracer.object, "destroy")
       IN  tracer' = IF t1.fault # "none" THEN t1
                     ELSE [t4 EXCEPT !.state = "Destroyed"]
    /\ UNCHANGED <<heap, thr, arena_mem, bt_mem, os, log, ghost>>

NextTrace ==
    \/ \E c \in Capacities, un \in Uninit, ue \in Uninit : trace_create(c, un, ue)
    \/ trace_capture_start
    \/ trace_capture_stop
    \/ \E t \in Threads, name \in Names : trace_duration_push_call(t, name)
    \/ \E t \in Threads : trace_duration_push_lock(t)
    \/ \E t \in Threads, u \in Uninit : trace_duration_push_body(t, u)
    \/ \E t \in Threads : trace_duration_pop_call(t)
    \/ \E t \in Threads : trace_duration_pop_lock(t)
    \/ \E t \in Threads : trace_duration_pop_body(t)
    \/ \E v \in Uninit : trace_destroy(v)

SpecTrace == Init /\ [][NextTrace]_vars

\* C32: the number of recorded events never exceeds the event_capacity given
\* to trace_create: event_count <= event_capacity and no event is stored at
\* an index >= event_capacity.
C32_EventCountBounded ==
    tracer.state # "None" =>
        /\ tracer.event_count <= tracer.capacity
        /\ Len(tracer.slots) <= tracer.capacity

\* the step in which thread t runs the body of trace_duration_pop
PopStep(t) ==
    /\ tracer.state = "Created"
    /\ tracer.pcs[t].pc = "pop_body"
    /\ tracer'.pcs[t].pc = "idle" \/ tracer'.fault # "none"

\* C33: each trace_duration_pop records an end event whose name is the name
\* of the most recent unpopped push of the same thread, and a pop by a thread
\* with no unpopped push does not dereference an empty stack.
C33_PopIsLifo ==
    [][\A t \in Threads : PopStep(t) =>
          IF tracer.open[t] # <<>>
          THEN /\ tracer'.fault \in {"none", "overflow"}
               /\ tracer'.mem[tracer'.slots[Len(tracer'.slots)]]
                     = Event(Head(tracer.open[t]), 1, t)
          ELSE tracer'.fault \notin {"null_stack", "wild_stack"}]_vars

\* C34: trace_destroy passes to heap_free only addresses that heap_alloc
\* returned for the trace and that are still live, each once, and after it
\* nothing of the trace is left allocated; the slot at index event_count is
\* never freed.
C34_DestroyFreesLiveOnly ==
    tracer.state # "None" =>
        /\ \A i \in DOMAIN tracer.frees :
              tracer.frees[i].by = "destroy" => tracer.frees[i].live
        /\ tracer.state = "Destroyed" => tracer.live = {}

====
